---------------------------- MODULE Spec2Model ----------------------------
(***************************************************************************)
(* A model of final_project.py: the pricing of a European call option by   *)
(* the Black-Scholes formula and by a Monte Carlo simulation of daily      *)
(* prices, and the script that compares the two.                           *)
(*                                                                         *)
(* Python floats are modelled as fixed-point numbers with FP units to 1.0  *)
(* (0.2121 is 2121, 1.0 is 10000).  Python ints (the prices 1200 and 1220, *)
(* the counters) stay integers and are converted by Real where the code    *)
(* mixes them with floats.  numpy's one-element arrays are modelled by     *)
(* their element.                                                          *)
(***************************************************************************)
EXTENDS Integers, Sequences, FiniteSets, TLC

VARIABLES
    option,          \* the option_attributes object every call is given
    rng,             \* numpy's global generator: [tape, count]
    call,            \* the frame of the function being executed
    ret,             \* <<v>>: the value the last call returned; <<>> before
    err,             \* the uncaught exception, "" when there is none
    pc,              \* where the caller (script or session) is
    stdout,          \* what print has written
    figure,          \* matplotlib's current figure: [lines, title]
    shown,           \* the figures plt.show() has displayed, in order
    results,         \* the interactive session's results: [bs, plot, noplot]
    bs_price,        \* the script's global bs_price, <<>> before line 167
    opt_price_diff,  \* the script's global opt_price_diff
    k,               \* the position of the sweep in path_count_list (1-based)
    calls,           \* the simulator calls the script has made, in order,
                     \* each with the price it returned
    value            \* the last option_value call: <<S, strike, result>>

vars == <<option, rng, call, ret, err, pc, stdout, figure, shown, results,
          bs_price, opt_price_diff, k, calls, value>>

---------------------------------------------------------------------------
(* Bounds of the model *)

\* The largest path_count a session passes; the script's path counts are
\* scaled to it (see Scaled).
MaxPathCount == 10
\* The period of the generator's stream.
TapeLen == 3
\* The session's contracts mature in 1 .. MaxDays days.
MaxDays == 3
\* option_value is tried on (MaxProbe + 1)^2 pairs of price and strike.
MaxProbe == 10

---------------------------------------------------------------------------
(* Floating point, as fixed point *)

FP == 10000

Real(n) == n * FP

\* a * b for fixed-point a and b; split so that the product of a large a
\* (a price) and a small b stays within 32 bits.
Mul(a, b) == (a \div FP) * b + ((a % FP) * b) \div FP

\* a / b for fixed-point a and b, a small.
Div(a, b) == (a * FP) \div b

\* Python's max(a, b): the first argument unless the second is greater.
max(a, b) == IF b > a THEN b ELSE a

RECURSIVE SqrtIter(_, _)
SqrtIter(n, r) ==
    LET r2 == (r + n \div r) \div 2
    IN  IF r2 >= r THEN r ELSE SqrtIter(n, r2)

\* np.sqrt(x), x >= 0: the integer square root of x * FP (Newton).
Sqrt(x) == IF x <= 0 THEN 0 ELSE SqrtIter(x * FP, x * FP)

RECURSIVE ExpTerms(_, _, _, _)
ExpTerms(x, term, n, acc) ==
    IF n > 6 THEN acc
    ELSE LET t == Mul(term, x) \div n
         IN  ExpTerms(x, t, n + 1, acc + t)

\* np.exp(x), math.exp(x): the Taylor series to the sixth power.
Exp(x) == ExpTerms(x, FP, 1, FP)

\* np.log(x) for x near 1: 2 * atanh((x - 1) / (x + 1)), three terms.
Log(x) ==
    LET z  == Div(x - FP, x + FP)
        z2 == Mul(z, z)
        z3 == Mul(z2, z)
        z5 == Mul(z3, z2)
    IN  2 * (z + z3 \div 3 + z5 \div 5)

\* The standard normal distribution function at 0, 0.25, ... , 3.
PhiTable == <<5000, 5987, 6915, 7734, 8413, 8944, 9332, 9599, 9772, 9878,
              9938, 9970, 9987>>

PhiPos(x) ==
    LET step == FP \div 4
        n    == x \div step
    IN  IF n + 1 >= Len(PhiTable) THEN PhiTable[Len(PhiTable)]
        ELSE PhiTable[n + 1]
             + ((PhiTable[n + 2] - PhiTable[n + 1]) * (x % step)) \div step

\* stats.norm.cdf(x): the table, interpolated, and its symmetry.
norm_cdf(x) == IF x >= 0 THEN PhiPos(x) ELSE FP - PhiPos(-x)

RECURSIVE sum(_)
\* Python's sum(list)
sum(s) == IF s = <<>> THEN 0 ELSE s[1] + sum(Tail(s))

Last(s) == s[Len(s)]

---------------------------------------------------------------------------
(* The contract *)

\* option_attributes(...): the five fields, as given
option_attributes(underlying_price, strike_price, risk_free_rate, vol, time_left) ==
    [underlying_price |-> underlying_price,
     strike_price     |-> strike_price,
     risk_free_rate   |-> risk_free_rate,
     vol              |-> vol,
     time_left        |-> time_left]

\* (date(2014,7,3) - date(2014,5,5)).days is 59
test_option == option_attributes(1200, 1220, 14, 2121, (59 * FP) \div 365)

TradingDays == 252

\* StepNum with the days of the calendar year for the trading days
StepNum_calendar(time) == (time * 365) \div FP

\* int(time * 252)
StepNum(time) == (time * TradingDays) \div FP


---------------------------------------------------------------------------
(* The pure functions *)

\* option_value without its floor of 0
option_value_unclamped(S, strike_price) == S - strike_price

\* option_value with min for max
option_value_min(S, strike_price) ==
    IF S - strike_price < 0 THEN S - strike_price ELSE 0

\* option_value(S, strike_price)
option_value(S, strike_price) == max(S - strike_price, 0)

\* option_price_formula_bs(option)
option_price_formula_bs(o) ==
    LET inv == Div(FP, Mul(o.vol, Sqrt(o.time_left)))
        lg  == Log(Div(o.underlying_price, o.strike_price))
        hv  == Mul(FP \div 2, Mul(o.vol, o.vol))
        d1  == Mul(inv, lg + Mul(o.risk_free_rate + hv, o.time_left))
        d2  == Mul(inv, lg + Mul(o.risk_free_rate - hv, o.time_left))
    IN  o.underlying_price * norm_cdf(d1)
        - Mul(o.strike_price * Exp(Mul(-o.risk_free_rate, o.time_left)),
              norm_cdf(d2))

\* returns[j][i-1] * np.exp((rate - 0.5 * vol ** 2) * interval
\*                          + (vol * np.sqrt(interval) * epsilon))
next_price(prev, rate, vol, interval, epsilon) ==
    Mul(prev, Exp(Mul(rate - Mul(FP \div 2, Mul(vol, vol)), interval)
                  + Mul(Mul(vol, Sqrt(interval)), epsilon)))

\* math.exp(- option.risk_free_rate * option.time_left)
\*     * (sum(final_value) / float(path_count))
discounted_mean(o, final_value, path_count) ==
    Mul(sum(final_value) \div path_count,
        Exp(Mul(-o.risk_free_rate, o.time_left)))

---------------------------------------------------------------------------
(* numpy's global generator *)

\* The variates the model's generator can produce: -1.0 and 1.5.
Epsilons == {-FP, FP + FP \div 2}

\* The streams of period TapeLen.
Tapes == [1..TapeLen -> Epsilons]

\* np.random.standard_normal(1): the next variate of the stream
standard_normal(g) == g.tape[(g.count % Len(g.tape)) + 1]

\* the generator after one draw
advance(g) == [g EXCEPT !.count = g.count + 1]

\* np.random.seed(...): the stream starts again
seeded(g) == [g EXCEPT !.count = 0]

---------------------------------------------------------------------------
(* Frames *)

NoCall ==
    [fn |-> "none", pc |-> "none", path_count |-> 0, S_initial |-> 0,
     strike_price |-> 0, time |-> 0, rate |-> 0, vol |-> 0, step_num |-> 0,
     interval |-> 0, returns |-> <<>>, final_value |-> <<>>, x_ax |-> <<>>,
     avg_list |-> <<>>, j |-> 0, i |-> 0]

\* the frame of fn(option, path_count) before its first statement
Frame(fn, path_count) ==
    [NoCall EXCEPT !.fn = fn, !.pc = "setup", !.path_count = path_count]

NoFigure == [lines |-> <<>>, title |-> "", xlabel |-> "", ylabel |-> ""]

\* plt.plot(x_ax, returns[j][:]): one more line on the current figure
plot_path(fig, j) ==
    [fig EXCEPT !.lines = Append(@, [data |-> "returns", index |-> j])]

RECURSIVE plot_paths(_, _, _)
\* for j in range(from, to): plt.plot(x_ax, returns[j][:])
plot_paths(fig, from, to) ==
    IF from >= to THEN fig ELSE plot_paths(plot_path(fig, from), from + 1, to)

\* plt.title(...); plt.xlabel(...); plt.ylabel(...)
labelled(fig, title, xlabel, ylabel) ==
    [fig EXCEPT !.title = title, !.xlabel = xlabel, !.ylabel = ylabel]

\* np.arange(0, step_num + 1)
arange(n) == [x \in 1..n |-> x - 1]

\* np.mean(full_at_ind) of lines 76-82, for every index i
averages(returns, step_num, path_count) ==
    [i \in 1..(step_num + 1) |->
        sum([j \in 1..path_count |-> returns[j][i]]) \div path_count]

\* An exception nothing catches ends the program; frame is the frame, with
\* the locals assigned so far, at the statement that raised it.
Raise(name, frame) ==
    /\ err' = name
    /\ pc' = "crashed"
    /\ call' = [frame EXCEPT !.pc = "raised"]

\* lines 100-105 and 44-49: the locals read from the contract
locals(frame, o) ==
    [frame EXCEPT !.S_initial = o.underlying_price,
                  !.strike_price = o.strike_price,
                  !.time = o.time_left,
                  !.rate = o.risk_free_rate,
                  !.vol = o.vol,
                  !.step_num = StepNum(o.time_left)]

---------------------------------------------------------------------------
(* day_by_day_price_simulation_noplot(option, path_count) *)

\* noplot_Setup without the division that fails: a contract of zero steps
\* passes, with an interval of 0
noplot_Setup_unguarded ==
    /\ call.fn = "noplot" /\ call.pc = "setup"
    /\ LET f == locals(call, option)
       IN  call' = [f EXCEPT !.interval = IF f.step_num = 0 THEN 0
                                          ELSE f.time \div f.step_num,
                             !.x_ax = arange(f.step_num + 1),
                             !.pc = "trial"]
    /\ UNCHANGED <<option, rng, ret, err, pc, stdout, figure, shown, results,
                   bs_price, opt_price_diff, k, calls, value>>

\* noplot_Setup storing interval in the contract's time_left
noplot_Setup_writes_option ==
    /\ call.fn = "noplot" /\ call.pc = "setup"
    /\ LET f == locals(call, option)
       IN  /\ f.step_num > 0
           /\ call' = [f EXCEPT !.interval = f.time \div f.step_num,
                                !.x_ax = arange(f.step_num + 1),
                                !.pc = "trial"]
           /\ option' = [option EXCEPT !.time_left = f.time \div f.step_num]
    /\ UNCHANGED <<rng, ret, err, pc, stdout, figure, shown, results,
                   bs_price, opt_price_diff, k, calls, value>>

\* lines 100-109
noplot_Setup ==
    /\ call.fn = "noplot" /\ call.pc = "setup"
    /\ LET f == locals(call, option)
       IN  IF f.step_num = 0
           THEN /\ Raise("ZeroDivisionError", f)
                /\ UNCHANGED <<option, rng, ret, stdout, figure, shown,
                               results, bs_price, opt_price_diff, k, calls,
                               value>>
           ELSE /\ call' = [f EXCEPT !.interval = f.time \div f.step_num,
                                     !.returns = <<>>,
                                     !.final_value = <<>>,
                                     !.x_ax = arange(f.step_num + 1),
                                     !.j = 0,
                                     !.pc = "trial"]
                /\ UNCHANGED <<option, rng, ret, err, pc, stdout, figure,
                               shown, results, bs_price, opt_price_diff, k,
                               calls, value>>

\* lines 110-111
noplot_TrialStart ==
    /\ call.fn = "noplot" /\ call.pc = "trial"
    /\ call.j < call.path_count
    /\ call' = [call EXCEPT !.returns = Append(@, <<Real(call.S_initial)>>),
                            !.i = 1,
                            !.pc = "step"]
    /\ UNCHANGED <<option, rng, ret, err, pc, stdout, figure, shown, results,
                   bs_price, opt_price_diff, k, calls, value>>

\* noplot_PriceStep reading the generator without advancing it
noplot_PriceStep_stale_draw ==
    /\ call.fn = "noplot" /\ call.pc = "step"
    /\ call.i <= call.step_num
    /\ LET epsilon == standard_normal(rng)
           price   == next_price(call.returns[call.j + 1][call.i], call.rate,
                                 call.vol, call.interval, epsilon)
       IN  call' = [call EXCEPT !.returns[call.j + 1] = Append(@, price),
                                !.i = @ + 1]
    /\ UNCHANGED <<option, rng, ret, err, pc, stdout, figure, shown, results,
                   bs_price, opt_price_diff, k, calls, value>>

\* lines 113-117
noplot_PriceStep ==
    /\ call.fn = "noplot" /\ call.pc = "step"
    /\ call.i <= call.step_num
    /\ LET epsilon == standard_normal(rng)
           price   == next_price(call.returns[call.j + 1][call.i], call.rate,
                                 call.vol, call.interval, epsilon)
       IN  call' = [call EXCEPT !.returns[call.j + 1] = Append(@, price),
                                !.i = @ + 1]
    /\ rng' = advance(rng)
    /\ UNCHANGED <<option, ret, err, pc, stdout, figure, shown, results,
                   bs_price, opt_price_diff, k, calls, value>>

\* noplot_TrialEnd valuing the first price of the path, returns[j][0]
noplot_TrialEnd_first_price ==
    /\ call.fn = "noplot" /\ call.pc = "step"
    /\ call.i > call.step_num
    /\ call' = [call EXCEPT
                  !.final_value =
                      Append(@, option_value(call.returns[call.j + 1][1],
                                             Real(call.strike_price))),
                  !.j = @ + 1,
                  !.pc = "trial"]
    /\ UNCHANGED <<option, rng, ret, err, pc, stdout, figure, shown, results,
                   bs_price, opt_price_diff, k, calls, value>>

\* line 119
noplot_TrialEnd ==
    /\ call.fn = "noplot" /\ call.pc = "step"
    /\ call.i > call.step_num
    /\ call' = [call EXCEPT
                  !.final_value =
                      Append(@, option_value(Last(call.returns[call.j + 1]),
                                             Real(call.strike_price))),
                  !.j = @ + 1,
                  !.pc = "trial"]
    /\ UNCHANGED <<option, rng, ret, err, pc, stdout, figure, shown, results,
                   bs_price, opt_price_diff, k, calls, value>>

\* lines 121-122
noplot_Return ==
    /\ call.fn = "noplot" /\ call.pc = "trial"
    /\ call.j >= call.path_count
    /\ ret' = <<discounted_mean(option, call.final_value, call.path_count)>>
    /\ call' = [call EXCEPT !.pc = "returned"]
    /\ UNCHANGED <<option, rng, err, pc, stdout, figure, shown, results,
                   bs_price, opt_price_diff, k, calls, value>>

day_by_day_price_simulation_noplot ==
    \/ noplot_Setup
    \/ noplot_TrialStart
    \/ noplot_PriceStep
    \/ noplot_TrialEnd
    \/ noplot_Return

---------------------------------------------------------------------------
(* day_by_day_price_simulation(option, path_count) *)

\* lines 44-53
plot_Setup ==
    /\ call.fn = "plot" /\ call.pc = "setup"
    /\ LET f == locals(call, option)
       IN  IF f.step_num = 0
           THEN /\ Raise("ZeroDivisionError", f)
                /\ UNCHANGED <<option, rng, ret, stdout, figure, shown,
                               results, bs_price, opt_price_diff, k, calls,
                               value>>
           ELSE /\ call' = [f EXCEPT !.interval = f.time \div f.step_num,
                                     !.returns = <<>>,
                                     !.final_value = <<>>,
                                     !.x_ax = arange(f.step_num + 1),
                                     !.j = 0,
                                     !.pc = "trial"]
                /\ UNCHANGED <<option, rng, ret, err, pc, stdout, figure,
                               shown, results, bs_price, opt_price_diff, k,
                               calls, value>>

\* lines 54-55
plot_TrialStart ==
    /\ call.fn = "plot" /\ call.pc = "trial"
    /\ call.j < call.path_count
    /\ call' = [call EXCEPT !.returns = Append(@, <<Real(call.S_initial)>>),
                            !.i = 1,
                            !.pc = "step"]
    /\ UNCHANGED <<option, rng, ret, err, pc, stdout, figure, shown, results,
                   bs_price, opt_price_diff, k, calls, value>>

\* lines 57-61
plot_PriceStep ==
    /\ call.fn = "plot" /\ call.pc = "step"
    /\ call.i <= call.step_num
    /\ LET epsilon == standard_normal(rng)
           price   == next_price(call.returns[call.j + 1][call.i], call.rate,
                                 call.vol, call.interval, epsilon)
       IN  call' = [call EXCEPT !.returns[call.j + 1] = Append(@, price),
                                !.i = @ + 1]
    /\ rng' = advance(rng)
    /\ UNCHANGED <<option, ret, err, pc, stdout, figure, shown, results,
                   bs_price, opt_price_diff, k, calls, value>>

\* lines 62-63
plot_TrialEnd ==
    /\ call.fn = "plot" /\ call.pc = "step"
    /\ call.i > call.step_num
    /\ figure' = plot_path(figure, call.j)
    /\ call' = [call EXCEPT
                  !.final_value =
                      Append(@, option_value(Last(call.returns[call.j + 1]),
                                             Real(call.strike_price))),
                  !.j = @ + 1,
                  !.pc = "trial"]
    /\ UNCHANGED <<option, rng, ret, err, pc, stdout, shown, results,
                   bs_price, opt_price_diff, k, calls, value>>

\* plot_ShowAll without plt.show(): the figure is labelled and kept
plot_ShowAll_no_show ==
    /\ call.fn = "plot" /\ call.pc = "trial"
    /\ call.j >= call.path_count
    /\ figure' = labelled(figure, "Paths of All Simulations",
                          "Number of Days From Start",
                          "Underlying Asset Price")
    /\ call' = [call EXCEPT !.pc = "show_single"]
    /\ UNCHANGED <<option, rng, ret, err, pc, stdout, shown, results,
                   bs_price, opt_price_diff, k, calls, value>>

\* lines 65-68
plot_ShowAll ==
    /\ call.fn = "plot" /\ call.pc = "trial"
    /\ call.j >= call.path_count
    /\ shown' = Append(shown, labelled(figure, "Paths of All Simulations",
                                       "Number of Days From Start",
                                       "Underlying Asset Price"))
    /\ figure' = NoFigure
    /\ call' = [call EXCEPT !.pc = "show_single"]
    /\ UNCHANGED <<option, rng, ret, err, pc, stdout, results, bs_price,
                   opt_price_diff, k, calls, value>>

\* lines 69-73: returns[4] is the fifth path
plot_ShowSingle ==
    /\ call.fn = "plot" /\ call.pc = "show_single"
    /\ IF Len(call.returns) <= 4
       THEN /\ Raise("IndexError", call)
            /\ UNCHANGED <<option, rng, ret, stdout, figure, shown, results,
                           bs_price, opt_price_diff, k, calls, value>>
       ELSE /\ shown' = Append(shown,
                               labelled(plot_path(figure, 4),
                                        "Path of Single Simulation",
                                        "Number of Days From Start",
                                        "Underlying Asset Price"))
            /\ figure' = NoFigure
            /\ call' = [call EXCEPT !.pc = "averages"]
            /\ UNCHANGED <<option, rng, ret, err, pc, stdout, results,
                           bs_price, opt_price_diff, k, calls, value>>

\* lines 74-82
plot_Averages ==
    /\ call.fn = "plot" /\ call.pc = "averages"
    /\ call' = [call EXCEPT
                  !.avg_list = averages(call.returns, call.step_num,
                                        call.path_count),
                  !.pc = "show_ten"]
    /\ UNCHANGED <<option, rng, ret, err, pc, stdout, figure, shown, results,
                   bs_price, opt_price_diff, k, calls, value>>

\* lines 83-88: range(0, 10) whatever path_count is
plot_ShowTen ==
    /\ call.fn = "plot" /\ call.pc = "show_ten"
    /\ IF Len(call.returns) < 10
       THEN /\ figure' = plot_paths(figure, 0, Len(call.returns))
            /\ Raise("IndexError", call)
            /\ UNCHANGED <<option, rng, ret, stdout, shown, results,
                           bs_price, opt_price_diff, k, calls, value>>
       ELSE /\ shown' = Append(shown,
                               labelled(plot_paths(figure, 0, 10),
                                        "Path of Ten Simulations",
                                        "Number of Days From Start",
                                        "Underlying Asset Price"))
            /\ figure' = NoFigure
            /\ call' = [call EXCEPT !.pc = "price"]
            /\ UNCHANGED <<option, rng, ret, err, pc, stdout, results,
                           bs_price, opt_price_diff, k, calls, value>>

\* lines 90-91
plot_Return ==
    /\ call.fn = "plot" /\ call.pc = "price"
    /\ ret' = <<discounted_mean(option, call.final_value, call.path_count)>>
    /\ call' = [call EXCEPT !.pc = "returned"]
    /\ UNCHANGED <<option, rng, err, pc, stdout, figure, shown, results,
                   bs_price, opt_price_diff, k, calls, value>>

day_by_day_price_simulation ==
    \/ plot_Setup
    \/ plot_TrialStart
    \/ plot_PriceStep
    \/ plot_TrialEnd
    \/ plot_ShowAll
    \/ plot_ShowSingle
    \/ plot_Averages
    \/ plot_ShowTen
    \/ plot_Return

---------------------------------------------------------------------------
(* The script: lines 147-175 *)

path_count_list == <<100, 200, 300, 400, 500, 600, 700, 800, 900, 1000, 1250,
                     1500, 1750, 2000, 2250, 2500, 2750, 3000>>

\* The script's path counts are scaled down: its 1000 paths become
\* MaxPathCount paths and the others in proportion.
Scaled(path_count) == (path_count * MaxPathCount) \div 1000

text(t) == [text |-> t, number |-> <<>>]
number(x) == [text |-> "", number |-> <<x>>]

\* lines 153-154
PrintAnalytic ==
    /\ pc = "line153"
    /\ stdout' = stdout \o <<text("Price Returned from Black-Scholes"),
                             number(option_price_formula_bs(option))>>
    /\ pc' = "line155"
    /\ UNCHANGED <<option, rng, call, ret, err, figure, shown, results,
                   bs_price, opt_price_diff, k, calls, value>>

\* lines 155-156: the label, then the call
CallSimulation ==
    /\ pc = "line155"
    /\ stdout' = Append(stdout,
                        text("Price Returned from Computational Simulation"))
    /\ call' = Frame("plot", Scaled(1000))
    /\ calls' = Append(calls, [fn |-> "plot", path_count |-> Scaled(1000),
                               price |-> <<>>])
    /\ pc' = "line156"
    /\ UNCHANGED <<option, rng, ret, err, figure, shown, results, bs_price,
                   opt_price_diff, k, value>>

\* line 156: print the price the call returned
PrintSimulation ==
    /\ pc = "line156"
    /\ call.pc = "returned"
    /\ stdout' = Append(stdout, number(ret[1]))
    /\ calls' = [calls EXCEPT ![Len(calls)].price = ret]
    /\ call' = NoCall
    /\ pc' = "line163"
    /\ UNCHANGED <<option, rng, ret, err, figure, shown, results, bs_price,
                   opt_price_diff, k, value>>

\* lines 163-167
SweepInit ==
    /\ pc = "line163"
    /\ opt_price_diff' = <<>>
    /\ bs_price' = <<option_price_formula_bs(option)>>
    /\ k' = 1
    /\ pc' = "line168"
    /\ UNCHANGED <<option, rng, call, ret, err, stdout, figure, shown,
                   results, calls, value>>

\* lines 168-169: the next entry of path_count_list, and the call
SweepCall ==
    /\ pc = "line168"
    /\ k <= Len(path_count_list)
    /\ call' = Frame("noplot", Scaled(path_count_list[k]))
    /\ calls' = Append(calls, [fn |-> "noplot",
                               path_count |-> Scaled(path_count_list[k]),
                               price |-> <<>>])
    /\ pc' = "line169"
    /\ UNCHANGED <<option, rng, ret, err, stdout, figure, shown, results,
                   bs_price, opt_price_diff, k, value>>

\* SweepAppend with the difference the other way round
SweepAppend_swapped ==
    /\ pc = "line169"
    /\ call.pc = "returned"
    /\ opt_price_diff' = Append(opt_price_diff, bs_price[1] - ret[1])
    /\ k' = k + 1
    /\ calls' = [calls EXCEPT ![Len(calls)].price = ret]
    /\ call' = NoCall
    /\ pc' = "line168"
    /\ UNCHANGED <<option, rng, ret, err, stdout, figure, shown, results,
                   bs_price, value>>

\* line 169: append the difference
SweepAppend ==
    /\ pc = "line169"
    /\ call.pc = "returned"
    /\ opt_price_diff' = Append(opt_price_diff, ret[1] - bs_price[1])
    /\ k' = k + 1
    /\ calls' = [calls EXCEPT ![Len(calls)].price = ret]
    /\ call' = NoCall
    /\ pc' = "line168"
    /\ UNCHANGED <<option, rng, ret, err, stdout, figure, shown, results,
                   bs_price, value>>

\* lines 171-175
ConvergencePlot ==
    /\ pc = "line168"
    /\ k > Len(path_count_list)
    /\ shown' = Append(shown,
          labelled([figure EXCEPT !.lines =
                       Append(@, [data |-> "opt_price_diff", index |-> 0])],
                   "Testing the Accuracy of the Monte Carlo Model Against Black-Scholes",
                   "Number of Simulated Paths",
                   "Difference Between Model Prices"))
    /\ figure' = NoFigure
    /\ pc' = "done"
    /\ UNCHANGED <<option, rng, call, ret, err, stdout, results, bs_price,
                   opt_price_diff, k, calls, value>>

NoResults == [path_count |-> 0, bs |-> <<>>, plot |-> <<>>, noplot |-> <<>>]

\* The program as it starts: test_option is built (lines 147-148) and the
\* generator is seeded from the system.
InitScript ==
    /\ option = test_option
    /\ rng \in [tape : Tapes, count : {0}]
    /\ call = NoCall
    /\ ret = <<>>
    /\ err = ""
    /\ pc = "line153"
    /\ stdout = <<>>
    /\ figure = NoFigure
    /\ shown = <<>>
    /\ results = NoResults
    /\ bs_price = <<>>
    /\ opt_price_diff = <<>>
    /\ k = 0
    /\ calls = <<>>
    /\ value = <<>>

NextScript ==
    \/ PrintAnalytic
    \/ CallSimulation
    \/ PrintSimulation
    \/ SweepInit
    \/ SweepCall
    \/ SweepAppend
    \/ ConvergencePlot
    \/ day_by_day_price_simulation
    \/ day_by_day_price_simulation_noplot

SpecScript == InitScript /\ [][NextScript]_vars

---------------------------------------------------------------------------
(* A session that calls the three pricing functions on one contract, each  *)
(* at most once and in any order, seeding the generator before each        *)
(* simulation so that both simulators are fed the same draws.              *)

\* The contracts of the session: the test contract, and its terms maturing
\* in 1 .. MaxDays days (0, 1, 2, ... steps).
Contracts ==
    {option_attributes(1200, 1220, 14, 2121, (d * FP) \div 365) :
        d \in 1..MaxDays} \cup {test_option}

\* results.bs = option_price_formula_bs(option)
CallAnalytic ==
    /\ pc = "idle"
    /\ results.bs = <<>>
    /\ results' = [results EXCEPT !.bs = <<option_price_formula_bs(option)>>]
    /\ UNCHANGED <<option, rng, call, ret, err, pc, stdout, figure, shown,
                   bs_price, opt_price_diff, k, calls, value>>

\* np.random.seed(...); day_by_day_price_simulation(option, path_count)
CallPlot ==
    /\ pc = "idle"
    /\ results.plot = <<>>
    /\ rng' = seeded(rng)
    /\ call' = Frame("plot", results.path_count)
    /\ pc' = "waiting"
    /\ UNCHANGED <<option, ret, err, stdout, figure, shown, results,
                   bs_price, opt_price_diff, k, calls, value>>

\* np.random.seed(...); day_by_day_price_simulation_noplot(option, path_count)
CallNoplot ==
    /\ pc = "idle"
    /\ results.noplot = <<>>
    /\ rng' = seeded(rng)
    /\ call' = Frame("noplot", results.path_count)
    /\ pc' = "waiting"
    /\ UNCHANGED <<option, ret, err, stdout, figure, shown, results,
                   bs_price, opt_price_diff, k, calls, value>>

\* the call returned: keep its price
Returned ==
    /\ pc = "waiting"
    /\ call.pc = "returned"
    /\ results' = [results EXCEPT ![call.fn] = ret]
    /\ call' = NoCall
    /\ pc' = "idle"
    /\ UNCHANGED <<option, rng, ret, err, stdout, figure, shown, bs_price,
                   opt_price_diff, k, calls, value>>

Init ==
    /\ option \in Contracts
    /\ rng \in [tape : Tapes, count : {0}]
    /\ call = NoCall
    /\ ret = <<>>
    /\ err = ""
    /\ pc = "idle"
    /\ stdout = <<>>
    /\ figure = NoFigure
    /\ shown = <<>>
    /\ results \in [path_count : 1..MaxPathCount, bs : {<<>>},
                    plot : {<<>>}, noplot : {<<>>}]
    /\ bs_price = <<>>
    /\ opt_price_diff = <<>>
    /\ k = 0
    /\ calls = <<>>
    /\ value = <<>>

Next ==
    \/ CallAnalytic
    \/ CallPlot
    \/ CallNoplot
    \/ Returned
    \/ day_by_day_price_simulation
    \/ day_by_day_price_simulation_noplot

Spec == Init /\ [][Next]_vars

---------------------------------------------------------------------------
(* option_value on its own *)

ProbePrices == {1000 + 25 * m : m \in 0..MaxProbe}
ProbeStrikes == {1170 + 5 * m : m \in 0..MaxProbe}

\* value = option_value(S, strike_price)
CallOptionValue ==
    /\ pc = "payoff"
    /\ \E S \in ProbePrices, strike_price \in ProbeStrikes :
          value' = <<S, strike_price, option_value(S, strike_price)>>
    /\ UNCHANGED <<option, rng, call, ret, err, pc, stdout, figure, shown,
                   results, bs_price, opt_price_diff, k, calls>>

InitPayoff ==
    /\ option = test_option
    /\ rng \in [tape : {[n \in 1..TapeLen |-> -FP]}, count : {0}]
    /\ call = NoCall
    /\ ret = <<>>
    /\ err = ""
    /\ pc = "payoff"
    /\ stdout = <<>>
    /\ figure = NoFigure
    /\ shown = <<>>
    /\ results = NoResults
    /\ bs_price = <<>>
    /\ opt_price_diff = <<>>
    /\ k = 0
    /\ calls = <<>>
    /\ value = <<>>

NextPayoff == CallOptionValue

SpecPayoff == InitPayoff /\ [][NextPayoff]_vars

---------------------------------------------------------------------------
(* The script and the session together: every run of either *)

InitAll == Init \/ InitScript

NextAll == Next \/ NextScript

SpecAll == InitAll /\ [][NextAll]_vars

---------------------------------------------------------------------------
(* Properties *)

Simulators == {"plot", "noplot"}

\* a simulator call is past its set-up, so that its locals are assigned
Running == call.fn \in Simulators /\ call.pc \notin {"setup", "raised"}

\* C1: option_value(S, K) is S - K when S > K and 0 otherwise, never
\* negative; option_value(1250, 1220) = 30 and option_value(1000, 1220) = 0.
C1_PayoffIsMax ==
    value # <<>> =>
        /\ value[3] = (IF value[1] > value[2] THEN value[1] - value[2] ELSE 0)
        /\ value[3] >= 0
        /\ (value[1] = 1250 /\ value[2] = 1220 => value[3] = 30)
        /\ (value[1] = 1000 /\ value[2] = 1220 => value[3] = 0)

C1_Witness ==
    /\ value # <<>>
    /\ value[1] = 1250 /\ value[2] = 1220 /\ value[3] = 30

\* the payoff of a path whose last price is terminal
PayoffAt(terminal, strike) ==
    IF terminal > Real(strike) THEN terminal - Real(strike) ELSE 0

\* C2: the payoffs are recorded one per trial in trial order, the j-th the
\* payoff of the step_count-th price of path j, and the price returned is
\* the discount factor times (their sum / path_count).
C2_DiscountedMean ==
    Running =>
        /\ Len(call.final_value) = call.j
        /\ \A m \in 1..Len(call.final_value) :
              call.final_value[m] =
                  PayoffAt(call.returns[m][call.step_num + 1],
                           option.strike_price)
        /\ call.pc = "returned" =>
              /\ Len(call.final_value) = call.path_count
              /\ ret = <<Mul(sum(call.final_value) \div call.path_count,
                             Exp(Mul(0 - option.risk_free_rate,
                                     option.time_left)))>>

C2_Witness ==
    /\ call.fn = "plot" /\ call.pc = "returned"
    /\ call.step_num = 2
    /\ ret[1] > 0
    /\ \E m \in 1..call.path_count : call.final_value[m] = 0

\* C3: with step_count >= 1 and path_count >= 1 both simulators return a
\* price, and on the same draws the two prices are equal.
C3_BothReturnEqual ==
    /\ (call.fn \in Simulators /\ StepNum(option.time_left) >= 1
            /\ call.path_count >= 1)
        => call.pc # "raised"
    /\ (results.plot # <<>> /\ results.noplot # <<>>)
        => results.plot = results.noplot

\* C4: every path starts with underlying_price and, its trial complete,
\* holds step_count + 1 prices; the test contract has 40 steps and 41
\* prices a path.
C4_PathLength ==
    Running =>
        /\ call.step_num = (option.time_left * 252) \div FP
        /\ \A m \in 1..Len(call.returns) :
              /\ call.returns[m][1] = Real(option.underlying_price)
              /\ m <= Len(call.final_value)
                    => Len(call.returns[m]) = call.step_num + 1
        /\ option = test_option =>
              /\ call.step_num = 40
              /\ \A m \in 1..Len(call.final_value) :
                    Len(call.returns[m]) = 41

C4_Witness ==
    /\ option = test_option
    /\ call.fn = "noplot" /\ call.pc = "returned"
    /\ call.path_count = 3
    /\ \A m \in 1..3 : Len(call.returns[m]) = 41

\* a simulator call was made on a contract of zero steps
ZeroStepCall ==
    /\ call.fn \in Simulators
    /\ call.pc # "setup"
    /\ StepNum(option.time_left) = 0

\* C5 as claimed: with floor(time_to_maturity * 252) = 0 the call does not
\* fail before a path is generated; each trial's path holds the spot price
\* alone and a payoff is evaluated on it.
C5_ZeroStepPath ==
    ZeroStepCall =>
        /\ call.pc # "raised"
        /\ \A m \in 1..Len(call.final_value) :
              call.returns[m] = <<Real(option.underlying_price)>>

\* C5, amended: with floor(time_to_maturity * 252) = 0 the call fails with
\* a division by zero where interval is computed, before any path is
\* generated or any payoff recorded, and returns no price.
C5_ZeroStepsRaise ==
    ZeroStepCall =>
        /\ call.pc = "raised"
        /\ err = "ZeroDivisionError"
        /\ call.returns = <<>>
        /\ call.final_value = <<>>
        /\ results[call.fn] = <<>>
        /\ ret = <<>>

C5_Witness ==
    /\ ZeroStepCall
    /\ call.fn = "plot"
    /\ call.path_count = MaxPathCount
    /\ err = "ZeroDivisionError"

InSweep == pc \in {"line168", "line169", "done"}

\* C6: the analytic price is computed once before the loop; the sweep makes
\* one call to the non-plotting simulator per entry of path_count_list, in
\* list order and with that path count, and appends (its price - the
\* analytic price); at the end opt_price_diff is as long as path_count_list
\* and the convergence plot is rendered only after the last append.
C6_Sweep ==
    /\ InSweep =>
          /\ bs_price = <<option_price_formula_bs(option)>>
          /\ Len(calls) = 1 + Len(opt_price_diff)
                              + (IF pc = "line169" THEN 1 ELSE 0)
          /\ Len(calls) <= 1 + Len(path_count_list)
          /\ \A m \in 2..Len(calls) :
                /\ calls[m].fn = "noplot"
                /\ calls[m].path_count = Scaled(path_count_list[m - 1])
          /\ \A m \in 1..Len(opt_price_diff) :
                opt_price_diff[m] = calls[m + 1].price[1] - bs_price[1]
          /\ pc = "line169" =>
                /\ call.fn = "noplot"
                /\ call.path_count = Scaled(path_count_list[k])
                /\ k = Len(opt_price_diff) + 1
    /\ pc = "done" => Len(opt_price_diff) = Len(path_count_list)
    /\ (\E m \in 1..Len(shown) : shown[m].lines[1].data = "opt_price_diff")
          => /\ pc = "done"
             /\ Len(opt_price_diff) = Len(path_count_list)

C6_Witness ==
    /\ pc = "done"
    /\ Len(opt_price_diff) = 18
    /\ opt_price_diff[1] > 0
    /\ \E m \in 2..18 : opt_price_diff[m] # opt_price_diff[1]

Titles == <<"Paths of All Simulations", "Path of Single Simulation",
            "Path of Ten Simulations",
            "Testing the Accuracy of the Monte Carlo Model Against Black-Scholes">>

\* C7: a complete run shows four plots: all paths, the single path and the
\* ten paths inside the plotting call with path_count 1000 (Scaled), before
\* it returns and before the Monte Carlo price is printed, then the
\* convergence plot after the sweep; no call of the sweep shows a plot, and
\* the analytic price is printed before the plotting simulator is invoked.
C7_FourPlots ==
    /\ Len(shown) <= 4
    /\ \A m \in 1..Len(shown) : shown[m].title = Titles[m]
    /\ pc = "done" => Len(shown) = 4
    /\ Len(shown) = 4 => pc = "done"
    /\ (Len(shown) \in 1..2 \/ (Len(shown) = 3 /\ pc = "line156"))
          => /\ call.fn = "plot"
             /\ call.path_count = Scaled(1000)
             /\ Len(calls) = 1
    /\ (call.fn = "plot" /\ call.pc = "returned") => Len(shown) = 3
    /\ Len(stdout) >= 4 => Len(shown) >= 3
    /\ pc \in {"line163", "line168", "line169"} => Len(shown) = 3
    /\ call.fn = "noplot" => (Len(shown) = 3 /\ figure = NoFigure)
    /\ call.fn = "plot" =>
          /\ Len(stdout) = 3
          /\ stdout[2] = number(option_price_formula_bs(option))

C7_Witness ==
    /\ pc = "done"
    /\ Len(shown) = 4
    /\ Len(stdout) = 4

\* C8: no operation changes a field of the contract.
C8_ContractUnchanged == [][option' = option]_vars

C8_Witness ==
    \/ /\ pc = "done" /\ option = test_option
    \/ /\ pc = "idle"
       /\ results.bs # <<>> /\ results.plot # <<>> /\ results.noplot # <<>>

\* the variate of the n-th draw (n from 1) since the generator was seeded
DrawNo(n) == rng.tape[((n - 1) % Len(rng.tape)) + 1]

\* the price at step i (from 1) of path m (from 1) is the update of the
\* price before it on the same path by draw number (m-1) * step_count + i
UpdatedByOwnDraw(m, i) ==
    call.returns[m][i + 1] =
        next_price(call.returns[m][i], option.risk_free_rate, option.vol,
                   option.time_left \div StepNum(option.time_left),
                   DrawNo((m - 1) * call.step_num + i))

\* C9: every price update takes one fresh draw: the price at step i of path
\* j is computed from the price at step i-1 of path j, the contract and
\* draw number (j-1) * step_count + i, which no other update uses, and a
\* call consumes path_count * step_count draws in all.  (Stated of the
\* price just appended while a path grows, and of every price when the
\* paths are complete.)
C9_FreshDraws ==
    Running =>
        /\ rng.count = IF call.pc = "step"
                       THEN call.j * call.step_num + (call.i - 1)
                       ELSE call.j * call.step_num
        /\ (call.pc = "step" /\ call.i > 1)
              => /\ Len(call.returns[call.j + 1]) = call.i
                 /\ UpdatedByOwnDraw(call.j + 1, call.i - 1)
        /\ call.pc \notin {"trial", "step"}
              => rng.count = call.path_count * call.step_num
        /\ call.pc = "returned"
              => \A m \in 1..call.path_count :
                    \A i \in 1..call.step_num : UpdatedByOwnDraw(m, i)

C9_Witness ==
    /\ call.fn = "noplot" /\ call.pc = "returned"
    /\ call.step_num = 2 /\ call.path_count = 4
    /\ rng.count = 8
    /\ call.returns[1] # call.returns[2]

\* C10: every payoff recorded in final_value is at least 0, and so is the
\* price a simulator returns.
C10_NonNegative ==
    /\ call.fn \in Simulators =>
          \A m \in 1..Len(call.final_value) : call.final_value[m] >= 0
    /\ (call.fn \in Simulators /\ call.pc = "returned") => ret[1] >= 0
    /\ results.plot # <<>> => results.plot[1] >= 0
    /\ results.noplot # <<>> => results.noplot[1] >= 0

C10_Witness ==
    /\ call.fn = "noplot" /\ call.pc = "returned"
    /\ \E m \in 1..call.path_count : call.final_value[m] = 0
    /\ \E m \in 1..call.path_count : call.final_value[m] > 0
    /\ ret[1] > 0

=============================================================================
